---- MODULE Spec2Model ----
(***************************************************************************)
(* Model of app.py (Antigravity Project Builder): the blueprint part of    *)
(* process_project, i.e. generate_blueprint_demo, generate_blueprint_gemini*)
(* and the choice between them.                                            *)
(*                                                                         *)
(* Strings are sequences.  A character of user text is a one-character     *)
(* string; a literal of the source (a piece of DEMO_BLUEPRINT, a notice)   *)
(* is one multi-character string, written without its emoji.  An exception *)
(* is modelled by its message, str(e).                                     *)
(***************************************************************************)
EXTENDS Integers, Sequences, FiniteSets, TLC

VARIABLES
    GEMINI_AVAILABLE,   \* app.py:20-24, set once at import
    GEMINI_API_KEY,     \* app.py:27, set once at import
    frame,              \* the invocation in progress: arguments, locals, position
    log,                \* observer: one earlier completed invocation, kept for comparison
    between,            \* observer: invocations completed since log was kept (saturating)
    other               \* a second invocation, in progress at the same time (another
                        \* worker thread of the server); idle where requests come one by one

vars == <<GEMINI_AVAILABLE, GEMINI_API_KEY, frame, log, between, other>>

(***************************************************************************)
(* Bounds of the input space.                                              *)
(***************************************************************************)
MaxPad == 2      \* leading / trailing whitespace characters of an idea
MaxShort == 2    \* short idea bodies have 0..MaxShort characters
MaxOver == 2     \* long idea bodies have NameLimit-1 .. NameLimit+MaxOver characters
MaxBetween == 2  \* the observer counts the invocations after the kept one up to here

NameLimit == 50  \* project_idea.strip()[:50]

Min(a, b) == IF a < b THEN a ELSE b

(***************************************************************************)
(* str.strip(), s[:n], truthiness of a string.                             *)
(***************************************************************************)
Whitespace == {" ", "\t", "\n"}

RECURSIVE lstrip(_)
lstrip(s) ==
    IF s = <<>> THEN <<>>
    ELSE IF Head(s) \in Whitespace THEN lstrip(Tail(s)) ELSE s

RECURSIVE rstrip(_)
rstrip(s) ==
    IF s = <<>> THEN <<>>
    ELSE IF s[Len(s)] \in Whitespace THEN rstrip(SubSeq(s, 1, Len(s) - 1)) ELSE s

strip(s) == rstrip(lstrip(s))

Slice(s, n) == SubSeq(s, 1, Min(n, Len(s)))

Truthy(s) == Len(s) > 0

(***************************************************************************)
(* DEMO_BLUEPRINT and str.format(project_name=...).                        *)
(***************************************************************************)
Placeholder == "{project_name}"

DEMO_BLUEPRINT ==
    << "\n# Project Blueprint: ",
       Placeholder,
       "\n\n## Tech Stack\n- Frontend: React 19 + TypeScript + Tailwind CSS ...",
       "\n\n## Architecture Overview\n Frontend -> Backend -> Database, AI Service",
       "\n\n## Key Files Structure\n project-root/ ... package.json",
       "\n\n## Next Steps\n1. ... 5. Build core features iteratively\n" >>

RECURSIVE format(_, _)
format(template, project_name) ==
    IF template = <<>> THEN <<>>
    ELSE (IF Head(template) = Placeholder THEN project_name ELSE <<Head(template)>>)
         \o format(Tail(template), project_name)

DefaultName == <<"Your Dream Project">>

\* A slip: the slice is taken before the whitespace is stripped.
generate_blueprint_demo_slice_first(project_idea) ==
    LET project_name == IF Truthy(strip(project_idea))
                        THEN strip(Slice(project_idea, NameLimit))
                        ELSE DefaultName
    IN  format(DEMO_BLUEPRINT, project_name)

\* A slip: the project name is remembered from an earlier request.
generate_blueprint_demo_cached(project_idea) ==
    LET idea == IF log.pc = "done" THEN log.project_idea ELSE project_idea
        project_name == IF Truthy(strip(idea))
                        THEN Slice(strip(idea), NameLimit)
                        ELSE DefaultName
    IN  format(DEMO_BLUEPRINT, project_name)

generate_blueprint_demo(project_idea) ==
    LET project_name == IF Truthy(strip(project_idea))
                        THEN Slice(strip(project_idea), NameLimit)
                        ELSE DefaultName
    IN  format(DEMO_BLUEPRINT, project_name)

(***************************************************************************)
(* Idea strings.  Idea(l, n, r) has l whitespace characters, then a body   *)
(* of n characters (letters, braces and inner whitespace), then r          *)
(* whitespace characters.                                                  *)
(***************************************************************************)
PadChars == <<" ", "\t", "\n">>
BodyChars == <<"a", "b", " ", "{", "c", "}", "\t">>

Pad(k) == [i \in 1..k |-> PadChars[((i - 1) % Len(PadChars)) + 1]]
Body(n) == [i \in 1..n |-> BodyChars[((i - 1) % Len(BodyChars)) + 1]]
Idea(l, n, r) == Pad(l) \o Body(n) \o Pad(r)

BodyLens == (0..MaxShort) \cup ((NameLimit - 1)..(NameLimit + MaxOver))

\* the inputs of the title rule
RichIdeas == { Idea(l, n, r) : l \in 0..MaxPad, n \in BodyLens, r \in 0..MaxPad }

\* the inputs of the requests: empty, blank, short, long, each padded or not
Ideas == { Idea(0, 0, 0), Idea(1, 0, 1), Idea(1, 2, 1), Idea(0, 2, 0),
           Idea(2, NameLimit + 2, 1) }

(***************************************************************************)
(* The generation service, seen from app.py: genai.Client(...) returns a   *)
(* client or raises; client.models.generate_content(...) returns a         *)
(* response or raises; reading response.text gives the text or raises.     *)
(***************************************************************************)
Errors == {"429 quota exceeded", "404 model not found"}
Texts == { <<"# Blueprint A">>, <<"# Blueprint B", "\n# Project Blueprint: ">> }

NoneResponse == [isNone |-> TRUE, textOk |-> FALSE, text |-> <<>>, textErr |-> "None"]
Responses ==
    { [isNone |-> FALSE, textOk |-> TRUE, text |-> t, textErr |-> "None"] : t \in Texts }
    \cup
    { [isNone |-> FALSE, textOk |-> FALSE, text |-> <<>>, textErr |-> e] : e \in Errors }

Raises(e) == [raises |-> TRUE, error |-> e, response |-> NoneResponse]
Returns(r) == [raises |-> FALSE, error |-> "None", response |-> r]

CallOutcomes == { Raises(e) : e \in Errors } \cup { Returns(r) : r \in Responses }
ClientOutcomes == { Raises(e) : e \in Errors } \cup { Returns(NoneResponse) }

(***************************************************************************)
(* An invocation: its arguments, the locals of generate_blueprint_gemini,  *)
(* the client constructions and candidate calls it has made so far (what a *)
(* counting test double of genai would record), and its result.            *)
(***************************************************************************)
IdleFrame ==
    [ pc |-> "idle", entry |-> "None", project_idea |-> <<>>, use_gemini |-> FALSE,
      idx |-> 0, response |-> NoneResponse, last_error |-> "None",
      used_model |-> "None", prompt |-> <<>>,
      clients |-> <<>>, calls |-> <<>>,
      raised |-> "None", animation_html |-> <<>>, blueprint |-> <<>> ]

\* return <doc>
Return(f, doc) == [f EXCEPT !.pc = "done", !.blueprint = doc]

\* an exception that no handler of app.py catches leaves the invocation
Propagate(f, e) == [f EXCEPT !.pc = "done", !.raised = e]

generate_animation_html == <<"<!DOCTYPE html> ... anime.min.js ... orbConfigs ... orb-frontend ...">>

\* A slip: the slower model is tried first.
model_names_pro_first == <<"gemini-1.5-pro", "gemini-1.5-flash">>

model_names == <<"gemini-1.5-flash", "gemini-1.5-pro">>

\* A slip: the prompt is built from the displayed project name.
Prompt_from_project_name(project_idea) ==
    <<"Create a concise full-stack project blueprint for: ">>
    \o Slice(strip(project_idea), NameLimit)
    \o <<"\n\nInclude:\n1. Tech stack recommendations ... Be practical and production-ready.">>

Prompt(project_idea) ==
    <<"Create a concise full-stack project blueprint for: ">>
    \o project_idea
    \o <<"\n\nInclude:\n1. Tech stack recommendations ... Be practical and production-ready.">>

FallingBack == "\n\nFalling back to demo mode...\n\n"
ErrorNotice == "Error generating blueprint: "
AllFailedNotice == "No available Gemini models found or generation failed. Last error: "
Tip == "\n\nTip: Check your API key and quota."
NotAvailableNotice == "Gemini API not available. Install google-genai package."
NoKeyNotice == "GEMINI_API_KEY not set. Please configure it in Hugging Face Spaces secrets."

\* A slip: the outer handler lets the exception through.
OuterHandler_reraise(f, e) == Propagate(f, e)

\* A slip: the outer handler leaves the message out.
OuterHandler_without_message(f, e) ==
    Return(f, <<ErrorNotice, FallingBack>> \o generate_blueprint_demo(f.project_idea))

\* except Exception as e: (the outer handler)
OuterHandler(f, e) ==
    Return(f, <<ErrorNotice, e, FallingBack>> \o generate_blueprint_demo(f.project_idea))

\* A slip: the notice is returned without the demo blueprint.
AllFailed_notice_only(f) == <<AllFailedNotice, f.last_error, Tip>>

\* the text returned when response is None after the loop
AllFailed(f) ==
    <<AllFailedNotice, f.last_error, Tip, FallingBack>>
    \o generate_blueprint_demo(f.project_idea)

\* what follows the loop
AfterLoop(f) ==
    IF f.response.isNone
    THEN Return(f, AllFailed(f))
    ELSE IF f.response.textOk
         THEN Return(f, f.response.text)
         ELSE OuterHandler(f, f.response.textErr)

\* A slip: no break, the loop goes on to the next model.
OnResponse_no_break(f, r) ==
    LET g == [f EXCEPT !.response = r, !.used_model = model_names[f.idx], !.idx = @ + 1]
    IN  IF g.idx > Len(model_names) THEN AfterLoop(g) ELSE g

\* A slip: the loop is left without binding the response.
OnResponse_unbound(f, r) ==
    AfterLoop([f EXCEPT !.used_model = model_names[f.idx]])

\* the call returned: bind response, break
OnResponse(f, r) ==
    AfterLoop([f EXCEPT !.response = r, !.used_model = model_names[f.idx]])

\* A slip: only the first error is kept.
OnException_keep_first(f, e) ==
    LET g == [f EXCEPT !.last_error = IF @ = "None" THEN e ELSE @, !.idx = @ + 1]
    IN  IF g.idx > Len(model_names) THEN AfterLoop(g) ELSE g

\* A slip: the failed model is tried again.
OnException_retry_same(f, e) == [f EXCEPT !.last_error = e]

\* except Exception as e: last_error = e; continue
OnException(f, e) ==
    LET g == [f EXCEPT !.last_error = e, !.idx = @ + 1]
    IN  IF g.idx > Len(model_names) THEN AfterLoop(g) ELSE g

\* one iteration of the loop over model_names
TryModel(f, outcome) ==
    LET g == [f EXCEPT !.calls = Append(@, [ model |-> model_names[f.idx],
                                              contents |-> f.prompt,
                                              outcome |-> outcome ])]
    IN  IF outcome.raises THEN OnException(g, outcome.error)
        ELSE OnResponse(g, outcome.response)

\* A slip: a circuit breaker, the first model is skipped while a concurrent
\* request has seen it fail.
InitLocals_circuit_breaker(f) ==
    [f EXCEPT !.pc = "loop",
              !.idx = IF other.calls # <<>> /\ other.calls[1].outcome.raises THEN 2 ELSE 1,
              !.response = NoneResponse,
              !.last_error = "None", !.used_model = "None",
              !.prompt = Prompt(f.project_idea)]

\* response = None; last_error = None; used_model = None; prompt = ...
InitLocals(f) ==
    [f EXCEPT !.pc = "loop", !.idx = 1, !.response = NoneResponse,
              !.last_error = "None", !.used_model = "None",
              !.prompt = Prompt(f.project_idea)]

\* client = genai.Client(api_key=GEMINI_API_KEY), inside the outer try
MakeClient(f, outcome) ==
    LET g == [f EXCEPT !.clients = Append(@, outcome)]
    IN  IF outcome.raises THEN OuterHandler(g, outcome.error)
        ELSE IF Len(model_names) = 0 THEN AfterLoop(InitLocals(g))
        ELSE InitLocals(g)

\* A slip: the guards fall back to the demo blueprint like the handlers do.
EnterGemini_with_fallback(f) ==
    IF ~GEMINI_AVAILABLE
    THEN Return(f, <<NotAvailableNotice, FallingBack>> \o generate_blueprint_demo(f.project_idea))
    ELSE IF GEMINI_API_KEY = ""
    THEN Return(f, <<NoKeyNotice, FallingBack>> \o generate_blueprint_demo(f.project_idea))
    ELSE [f EXCEPT !.pc = "client"]

\* the two guards at the head of generate_blueprint_gemini
EnterGemini(f) ==
    IF ~GEMINI_AVAILABLE THEN Return(f, <<NotAvailableNotice>>)
    ELSE IF GEMINI_API_KEY = "" THEN Return(f, <<NoKeyNotice>>)
    ELSE [f EXCEPT !.pc = "client"]

\* A slip: the checkbox is not consulted.
UseRemote_ignoring_flag(use_gemini) == GEMINI_AVAILABLE /\ GEMINI_API_KEY # ""

\* A slip: the credential is not consulted.
UseRemote_ignoring_key(use_gemini) == use_gemini /\ GEMINI_AVAILABLE

\* if use_gemini and GEMINI_AVAILABLE and GEMINI_API_KEY
UseRemote(use_gemini) == use_gemini /\ GEMINI_AVAILABLE /\ GEMINI_API_KEY # ""

\* A slip: the animation is built from the request.
EnterProcessProject_personalised(project_idea, use_gemini) ==
    LET f == [IdleFrame EXCEPT !.entry = "process_project",
                               !.project_idea = project_idea,
                               !.use_gemini = use_gemini,
                               !.animation_html = generate_animation_html \o project_idea]
    IN  IF UseRemote(use_gemini) THEN EnterGemini(f)
        ELSE Return(f, generate_blueprint_demo(project_idea))

EnterProcessProject(project_idea, use_gemini) ==
    LET f == [IdleFrame EXCEPT !.entry = "process_project",
                               !.project_idea = project_idea,
                               !.use_gemini = use_gemini,
                               !.animation_html = generate_animation_html]
    IN  IF UseRemote(use_gemini) THEN EnterGemini(f)
        ELSE Return(f, generate_blueprint_demo(project_idea))

EnterGeminiDirect(project_idea) ==
    EnterGemini([IdleFrame EXCEPT !.entry = "generate_blueprint_gemini",
                                  !.project_idea = project_idea,
                                  !.use_gemini = TRUE])

(***************************************************************************)
(* Actions.                                                                *)
(***************************************************************************)
Keys == {"", "secret-key"}

Init ==
    /\ GEMINI_AVAILABLE \in BOOLEAN
    /\ GEMINI_API_KEY \in Keys
    /\ frame = IdleFrame
    /\ log = IdleFrame
    /\ between = 0
    /\ other = IdleFrame

\* Gradio calls process_project(project_idea, use_gemini)
process_project ==
    /\ frame.pc = "idle"
    /\ \E project_idea \in Ideas, use_gemini \in BOOLEAN :
           frame' = EnterProcessProject(project_idea, use_gemini)
    /\ UNCHANGED <<GEMINI_AVAILABLE, GEMINI_API_KEY, log, between, other>>

\* generate_blueprint_gemini(project_idea) called on its own
generate_blueprint_gemini ==
    /\ frame.pc = "idle"
    /\ \E project_idea \in Ideas : frame' = EnterGeminiDirect(project_idea)
    /\ UNCHANGED <<GEMINI_AVAILABLE, GEMINI_API_KEY, log, between, other>>

ConstructClient ==
    /\ frame.pc = "client"
    /\ \E outcome \in ClientOutcomes : frame' = MakeClient(frame, outcome)
    /\ UNCHANGED <<GEMINI_AVAILABLE, GEMINI_API_KEY, log, between, other>>

GenerateContent ==
    /\ frame.pc = "loop"
    /\ \E outcome \in CallOutcomes : frame' = TryModel(frame, outcome)
    /\ UNCHANGED <<GEMINI_AVAILABLE, GEMINI_API_KEY, log, between, other>>

\* the invocation is over; the observer keeps it
Remember ==
    /\ frame.pc = "done"
    /\ frame' = IdleFrame
    /\ log' = frame
    /\ between' = 0
    /\ UNCHANGED <<GEMINI_AVAILABLE, GEMINI_API_KEY, other>>

\* the invocation is over; the observer lets it go
Forget ==
    /\ frame.pc = "done"
    /\ frame' = IdleFrame
    /\ between' = IF log.pc = "done" THEN Min(between + 1, MaxBetween) ELSE between
    /\ UNCHANGED <<GEMINI_AVAILABLE, GEMINI_API_KEY, log, other>>

Next ==
    \/ process_project
    \/ generate_blueprint_gemini
    \/ ConstructClient
    \/ GenerateContent
    \/ Remember
    \/ Forget

Spec == Init /\ [][Next]_vars

(***************************************************************************)
(* The title rule alone, on the larger set of ideas.                       *)
(***************************************************************************)
DemoRequest ==
    /\ frame.pc = "idle"
    /\ \E project_idea \in RichIdeas :
           frame' = EnterProcessProject(project_idea, FALSE)
    /\ UNCHANGED <<GEMINI_AVAILABLE, GEMINI_API_KEY, log, between, other>>

DemoNext ==
    \/ DemoRequest
    \/ Forget

DemoSpec == Init /\ [][DemoNext]_vars

(***************************************************************************)
(* Two requests at a time: Gradio runs process_project on worker threads,  *)
(* so a second invocation may be anywhere in its own run while the first   *)
(* one proceeds.  Each has its own arguments and locals.                   *)
(***************************************************************************)
OtherProcessProject ==
    /\ other.pc = "idle"
    /\ \E project_idea \in Ideas, use_gemini \in BOOLEAN :
           other' = EnterProcessProject(project_idea, use_gemini)
    /\ UNCHANGED <<GEMINI_AVAILABLE, GEMINI_API_KEY, frame, log, between>>

OtherGeminiDirect ==
    /\ other.pc = "idle"
    /\ \E project_idea \in Ideas : other' = EnterGeminiDirect(project_idea)
    /\ UNCHANGED <<GEMINI_AVAILABLE, GEMINI_API_KEY, frame, log, between>>

OtherConstructClient ==
    /\ other.pc = "client"
    /\ \E outcome \in ClientOutcomes : other' = MakeClient(other, outcome)
    /\ UNCHANGED <<GEMINI_AVAILABLE, GEMINI_API_KEY, frame, log, between>>

OtherGenerateContent ==
    /\ other.pc = "loop"
    /\ \E outcome \in CallOutcomes : other' = TryModel(other, outcome)
    /\ UNCHANGED <<GEMINI_AVAILABLE, GEMINI_API_KEY, frame, log, between>>

OtherReturn ==
    /\ other.pc = "done"
    /\ other' = IdleFrame
    /\ UNCHANGED <<GEMINI_AVAILABLE, GEMINI_API_KEY, frame, log, between>>

ConcNext ==
    \/ process_project
    \/ generate_blueprint_gemini
    \/ ConstructClient
    \/ GenerateContent
    \/ Forget
    \/ OtherProcessProject
    \/ OtherGeminiDirect
    \/ OtherConstructClient
    \/ OtherGenerateContent
    \/ OtherReturn

ConcSpec == Init /\ [][ConcNext]_vars

TypeOK ==
    /\ GEMINI_AVAILABLE \in BOOLEAN
    /\ GEMINI_API_KEY \in Keys
    /\ frame.pc \in {"idle", "client", "loop", "done"}
    /\ log.pc \in {"idle", "done"}
    /\ between \in 0..MaxBetween
    /\ other.pc \in {"idle", "client", "loop", "done"}

(***************************************************************************)
(* Vocabulary of the properties.                                           *)
(***************************************************************************)
Done == frame.pc = "done"
ViaProcessProject == frame.entry = "process_project"
ViaGemini == frame.entry = "generate_blueprint_gemini"
Configured == GEMINI_AVAILABLE /\ GEMINI_API_KEY # ""

IsSpace(c) == c \in {" ", "\t", "\n"}

\* s without its leading and trailing whitespace, said without recursion: the
\* piece of s from its first to its last non-whitespace character, and the
\* empty string when it has none
Trimmed(s) ==
    LET solid == { k \in 1..Len(s) : ~IsSpace(s[k]) }
    IN  IF solid = {} THEN <<>>
        ELSE LET i == CHOOSE k \in solid : \A m \in solid : k <= m
                 j == CHOOSE k \in solid : \A m \in solid : m <= k
             IN  [k \in 1..(j - i + 1) |-> s[i + k - 1]]

ExpectedName(s) ==
    LET t == Trimmed(s)
    IN  IF t = <<>> THEN <<"Your Dream Project">>
        ELSE [k \in 1..(IF Len(t) < 50 THEN Len(t) ELSE 50) |-> t[k]]

TitleLiteral == "\n# Project Blueprint: "
AfterTitle == DEMO_BLUEPRINT[3]

\* doc has the title, then exactly name, then the next literal of the template
HasTitle(doc, name) ==
    \E i \in 1..Len(doc) :
        /\ doc[i] = TitleLiteral
        /\ i + Len(name) + 1 <= Len(doc)
        /\ \A k \in 1..Len(name) : doc[i + k] = name[k]
        /\ doc[i + Len(name) + 1] = AfterTitle

\* C1: the document of process_project(s, False) has the title "Project
\* Blueprint: " immediately followed by the project name: "Your Dream Project"
\* when s stripped is empty, otherwise exactly the first 50 characters of s
\* stripped, and the template goes on right after it (no truncation marker).
C1_TitleRule ==
    (Done /\ ViaProcessProject /\ ~frame.use_gemini)
        => HasTitle(frame.blueprint, ExpectedName(frame.project_idea))

\* a padded idea whose stripped text is longer than 50 characters was titled
C1_Witness ==
    /\ Done /\ ViaProcessProject /\ ~frame.use_gemini
    /\ Len(Trimmed(frame.project_idea)) > 50
    /\ Len(frame.project_idea) > Len(Trimmed(frame.project_idea))
    /\ IsSpace(frame.project_idea[1])

\* C2: with use_gemini false, process_project makes no client and calls no
\* candidate, whatever the configuration, and returns the template for the idea.
C2_NoRemoteWhenFlagOff ==
    (ViaProcessProject /\ ~frame.use_gemini)
        => /\ Done
           /\ frame.clients = <<>>
           /\ frame.calls = <<>>
           /\ frame.raised = "None"
           /\ frame.blueprint = generate_blueprint_demo(frame.project_idea)

\* the flag was off although remote generation was configured
C2_Witness ==
    /\ Done /\ ViaProcessProject /\ ~frame.use_gemini
    /\ Configured
    /\ frame.blueprint # <<>>

\* C3: if the call to the first candidate returns, process_project(s, True)
\* with remote generation configured returns exactly the text of that
\* response, and the first candidate's call is the only call ever made.
C3_FirstSuccess ==
    (/\ ViaProcessProject /\ frame.use_gemini /\ Configured
     /\ Len(frame.calls) >= 1
     /\ ~frame.calls[1].outcome.raises)
        => /\ Done
           /\ Len(frame.calls) = 1
           /\ frame.calls[1].model = "gemini-1.5-flash"
           /\ frame.calls[1].outcome.response.textOk
                  => /\ frame.blueprint = frame.calls[1].outcome.response.text
                     /\ frame.raised = "None"

\* the first candidate answered with a readable text
C3_Witness ==
    /\ Done /\ ViaProcessProject /\ frame.use_gemini /\ Configured
    /\ Len(frame.calls) = 1
    /\ ~frame.calls[1].outcome.raises
    /\ frame.calls[1].outcome.response.textOk
    /\ frame.blueprint = frame.calls[1].outcome.response.text

AllCalled == Len(frame.calls) = 2
AllRaised == \A i \in 1..Len(frame.calls) : frame.calls[i].outcome.raises

\* the last Len(t) elements of doc are t
EndsWith(doc, t) ==
    /\ Len(doc) >= Len(t)
    /\ \A k \in 1..Len(t) : doc[Len(doc) - Len(t) + k] = t[k]

\* the whole template for the idea: every literal of DEMO_BLUEPRINT, in order,
\* around the project name
WholeTemplate(s) ==
    <<TitleLiteral>> \o ExpectedName(s)
    \o << "\n\n## Tech Stack\n- Frontend: React 19 + TypeScript + Tailwind CSS ...",
          "\n\n## Architecture Overview\n Frontend -> Backend -> Database, AI Service",
          "\n\n## Key Files Structure\n project-root/ ... package.json",
          "\n\n## Next Steps\n1. ... 5. Build core features iteratively\n" >>

Notices == { "Error generating blueprint: ",
             "No available Gemini models found or generation failed. Last error: ",
             "Gemini API not available. Install google-genai package.",
             "GEMINI_API_KEY not set. Please configure it in Hugging Face Spaces secrets." }

\* C4: if the first candidate's call raises and the second candidate's call
\* returns, generate_blueprint_gemini returns the second response's text, and
\* exactly two calls were made: gemini-1.5-flash, then gemini-1.5-pro.
C4_SecondSuccess ==
    (/\ Len(frame.calls) >= 2
     /\ frame.calls[1].outcome.raises
     /\ ~frame.calls[2].outcome.raises)
        => /\ Done
           /\ Len(frame.calls) = 2
           /\ frame.calls[1].model = "gemini-1.5-flash"
           /\ frame.calls[2].model = "gemini-1.5-pro"
           /\ frame.calls[2].outcome.response.textOk
                  => /\ frame.blueprint = frame.calls[2].outcome.response.text
                     /\ frame.raised = "None"

\* the first candidate raised and the text of the second was returned
C4_Witness ==
    /\ Done
    /\ Len(frame.calls) = 2
    /\ frame.calls[1].outcome.raises
    /\ ~frame.calls[2].outcome.raises
    /\ frame.calls[2].outcome.response.textOk
    /\ frame.blueprint = frame.calls[2].outcome.response.text

\* C5: if every candidate of the list fails, process_project(s, True) returns
\* a document that begins with the failure notice and ends with the complete
\* template for s.
C5_AllFailFallback ==
    (Done /\ ViaProcessProject /\ frame.use_gemini /\ AllCalled /\ AllRaised)
        => /\ frame.raised = "None"
           /\ frame.blueprint[1] =
                  "No available Gemini models found or generation failed. Last error: "
           /\ EndsWith(frame.blueprint, WholeTemplate(frame.project_idea))
           /\ Len(frame.blueprint) > Len(WholeTemplate(frame.project_idea))

\* both candidates raised for an idea that needs trimming and cutting
C5_Witness ==
    /\ Done /\ ViaProcessProject /\ frame.use_gemini /\ AllCalled /\ AllRaised
    /\ Len(Trimmed(frame.project_idea)) > 50
    /\ EndsWith(frame.blueprint, WholeTemplate(frame.project_idea))

\* C6: no error escapes process_project or generate_blueprint_gemini:
\* whatever the idea, the flag, the configuration and the outcomes of the
\* client construction and of the candidate calls, the invocation ends by
\* returning a document.
C6_NeverRaises ==
    /\ frame.raised = "None"
    /\ Done => frame.blueprint # <<>>

\* an invocation returned although something raised on its way: the client
\* construction, every candidate call, or the reading of the text
C6_Witness ==
    /\ Done
    /\ frame.raised = "None"
    /\ frame.blueprint # <<>>
    /\ frame.clients # <<>>
    /\ frame.clients[1].raises

\* C7: with remote generation unconfigured (library missing or credential
\* empty), process_project(s, True) makes no client and calls no candidate,
\* and returns the plain template, the document of process_project(s, False),
\* with no notice.
C7_UnconfiguredIsTemplate ==
    (ViaProcessProject /\ frame.use_gemini /\ ~Configured)
        => /\ Done
           /\ frame.clients = <<>>
           /\ frame.calls = <<>>
           /\ frame.raised = "None"
           /\ frame.blueprint = EnterProcessProject(frame.project_idea, FALSE).blueprint
           /\ frame.blueprint = WholeTemplate(frame.project_idea)

\* remote generation was asked for with the library present and no credential
C7_Witness ==
    /\ Done /\ ViaProcessProject /\ frame.use_gemini
    /\ GEMINI_AVAILABLE /\ GEMINI_API_KEY = ""
    /\ frame.blueprint = WholeTemplate(frame.project_idea)

\* C8 as stated: when remote generation is requested but not configured, the
\* document is a notice giving the reason together with the template as
\* fallback content, as after a failure of the adapter.
C8_AsStated ==
    (Done /\ frame.use_gemini /\ ~Configured)
        => /\ frame.blueprint[1] \in Notices
           /\ EndsWith(frame.blueprint, WholeTemplate(frame.project_idea))

\* C8 amended: when remote generation is requested but not configured,
\* nothing remote is attempted; process_project returns the template alone,
\* with no notice, and generate_blueprint_gemini called on its own returns a
\* notice alone, with no template: "not available" when the library is
\* missing, else "key not set".
C8_UnconfiguredDocuments ==
    (Done /\ frame.use_gemini /\ ~Configured)
        => /\ frame.clients = <<>> /\ frame.calls = <<>>
           /\ ViaProcessProject
                  => /\ frame.blueprint = WholeTemplate(frame.project_idea)
                     /\ \A i \in 1..Len(frame.blueprint) : frame.blueprint[i] \notin Notices
           /\ ViaGemini
                  => frame.blueprint =
                        IF ~GEMINI_AVAILABLE
                        THEN <<"Gemini API not available. Install google-genai package.">>
                        ELSE <<"GEMINI_API_KEY not set. Please configure it in Hugging Face Spaces secrets.">>

\* generate_blueprint_gemini was called on its own with neither library nor
\* key, after process_project had been asked for remote generation
C8_Witness ==
    /\ Done /\ ViaGemini /\ ~GEMINI_AVAILABLE /\ GEMINI_API_KEY = ""
    /\ frame.blueprint = <<"Gemini API not available. Install google-genai package.">>
    /\ log.pc = "done" /\ log.entry = "process_project" /\ log.use_gemini
    /\ log.blueprint = WholeTemplate(log.project_idea)

\* C9: when all candidates fail, the reason in the document is the message of
\* the last candidate called; the message of an earlier candidate, when it is
\* another one, appears nowhere in the document.
C9_LastErrorSurfaced ==
    (Done /\ AllCalled /\ AllRaised)
        => /\ frame.blueprint[1] =
                  "No available Gemini models found or generation failed. Last error: "
           /\ frame.blueprint[2] = frame.calls[2].outcome.error
           /\ frame.calls[1].outcome.error # frame.calls[2].outcome.error
                  => \A i \in 1..Len(frame.blueprint) :
                         frame.blueprint[i] # frame.calls[1].outcome.error

\* the two candidates raised different errors
C9_Witness ==
    /\ Done /\ AllCalled /\ AllRaised
    /\ frame.calls[1].outcome.error # frame.calls[2].outcome.error
    /\ frame.blueprint[2] = frame.calls[2].outcome.error

\* the service behaves alike for two invocations: a candidate called by both
\* has the same outcome in both, and so has the client construction
SameBehaviour(a, b) ==
    /\ \A i \in 1..Len(a.calls), j \in 1..Len(b.calls) :
           a.calls[i].model = b.calls[j].model => a.calls[i].outcome = b.calls[j].outcome
    /\ (a.clients # <<>> /\ b.clients # <<>>) => a.clients[1] = b.clients[1]

SameInputs(a, b) ==
    /\ a.entry = b.entry
    /\ a.project_idea = b.project_idea
    /\ a.use_gemini = b.use_gemini

\* C10: two invocations with the same idea and flag, under the same
\* configuration and the same behaviour of the service, return the same
\* document, whatever was invoked between them.
C10_Deterministic ==
    (Done /\ log.pc = "done" /\ SameInputs(frame, log) /\ SameBehaviour(frame, log))
        => /\ frame.blueprint = log.blueprint
           /\ frame.raised = log.raised
           /\ frame.calls = log.calls

\* the same failing remote request, repeated after other invocations
C10_Witness ==
    /\ Done /\ log.pc = "done" /\ SameInputs(frame, log) /\ SameBehaviour(frame, log)
    /\ between >= 1
    /\ ViaProcessProject /\ frame.use_gemini
    /\ AllCalled /\ AllRaised
    /\ frame.blueprint = log.blueprint

\* C11: the animation returned by process_project is the same fixed content on
\* every request, whatever the idea, the flag, the configuration and the fate
\* of the remote generation.
C11_FixedAnimation ==
    /\ (Done /\ ViaProcessProject)
           => frame.animation_html =
                  <<"<!DOCTYPE html> ... anime.min.js ... orbConfigs ... orb-frontend ...">>
    /\ (Done /\ ViaProcessProject /\ log.pc = "done" /\ log.entry = "process_project")
           => frame.animation_html = log.animation_html

\* a request whose remote generation failed returned the animation that an
\* earlier template request with another idea had returned
C11_Witness ==
    /\ Done /\ ViaProcessProject /\ frame.use_gemini /\ AllCalled /\ AllRaised
    /\ log.pc = "done" /\ log.entry = "process_project" /\ ~log.use_gemini
    /\ log.project_idea # frame.project_idea
    /\ frame.animation_html = log.animation_html
    /\ frame.animation_html # <<>>

\* C12: within one generate_blueprint_gemini call the candidates are called in
\* list order from the head, each at most once; a candidate is called only
\* after every earlier one has raised, none is called after one has returned,
\* at most two calls are made, and the loop ends with the first response
\* (success) or after the last candidate has raised (failure).
C12_CandidateOrder ==
    /\ Len(frame.calls) <= 2
    /\ \A i \in 1..Len(frame.calls) :
           /\ frame.calls[i].model = <<"gemini-1.5-flash", "gemini-1.5-pro">>[i]
           /\ i < Len(frame.calls) => frame.calls[i].outcome.raises
    /\ frame.pc = "loop"
           => /\ Len(frame.calls) < 2
              /\ AllRaised
              /\ frame.idx = Len(frame.calls) + 1
    /\ frame.pc = "client" => frame.calls = <<>>
    /\ (Done /\ frame.calls # <<>>)
           => \/ /\ ~frame.calls[Len(frame.calls)].outcome.raises
                 /\ frame.response = frame.calls[Len(frame.calls)].outcome.response
                 /\ frame.used_model = frame.calls[Len(frame.calls)].model
              \/ /\ AllCalled /\ AllRaised
                 /\ frame.response.isNone

\* the second candidate is about to be called after the first has raised
C12_Witness ==
    /\ frame.pc = "loop"
    /\ Len(frame.calls) = 1
    /\ frame.calls[1].model = "gemini-1.5-flash"
    /\ frame.calls[1].outcome.raises
    /\ frame.idx = 2

\* obtaining the result of a candidate failed: the call raised, or the text of
\* its response could not be read
Failed(c) == c.outcome.raises \/ ~c.outcome.response.textOk

\* C13 as stated: a candidate fails on any error raised in obtaining its
\* result, a malformed response included, and every failure is treated alike:
\* after a failure of candidate i the next candidate is called if one remains,
\* and otherwise the call ends in the all-candidates-failed outcome.
C13_AsStated ==
    Done => \A i \in 1..Len(frame.calls) :
                Failed(frame.calls[i])
                    => IF i < 2
                       THEN Len(frame.calls) > i
                       ELSE frame.blueprint[1] =
                                "No available Gemini models found or generation failed. Last error: "

\* C15: the prompt sent to every candidate holds the whole idea as given,
\* untrimmed and untruncated, between the two fixed parts, and is the same for
\* each candidate of one call; only the title of the template is cut.
C15_PromptVerbatim ==
    \A i \in 1..Len(frame.calls) :
        /\ frame.calls[i].contents =
               <<"Create a concise full-stack project blueprint for: ">>
               \o frame.project_idea
               \o <<"\n\nInclude:\n1. Tech stack recommendations ... Be practical and production-ready.">>
        /\ frame.calls[i].contents = frame.calls[1].contents

\* both candidates got the full padded idea of more than 50 characters, and
\* the fallback template was titled with its first 50 stripped characters
C15_Witness ==
    /\ Done /\ AllCalled /\ AllRaised
    /\ Len(Trimmed(frame.project_idea)) > 50
    /\ Len(frame.project_idea) > Len(Trimmed(frame.project_idea))
    /\ Len(frame.calls[2].contents) = Len(frame.project_idea) + 2
    /\ frame.calls[1].contents = frame.calls[2].contents
    /\ EndsWith(frame.blueprint, WholeTemplate(frame.project_idea))

InDoc(x, doc) == \E i \in 1..Len(doc) : doc[i] = x

\* C16: the all-candidates-failed notice is in the document only if both
\* candidates were called, in list order, and both calls raised, and then it
\* carries an error; a call that returns ends the loop as a success, never as
\* a failure with an empty last error, and its text is what is returned.
C16_NoticeOnlyAfterAllRaised ==
    /\ (Done /\ InDoc("No available Gemini models found or generation failed. Last error: ",
                      frame.blueprint))
           => /\ AllCalled /\ AllRaised
              /\ frame.calls[1].model = "gemini-1.5-flash"
              /\ frame.calls[2].model = "gemini-1.5-pro"
              /\ frame.blueprint[2] \in Errors
    /\ \A i \in 1..Len(frame.calls) :
           ~frame.calls[i].outcome.raises
               => /\ Done
                  /\ i = Len(frame.calls)
                  /\ ~frame.response.isNone
                  /\ ~InDoc("No available Gemini models found or generation failed. Last error: ",
                            frame.blueprint)
                  /\ frame.calls[i].outcome.response.textOk
                         => frame.blueprint = frame.calls[i].outcome.response.text

\* the second candidate returned after the first had raised: an error was
\* kept, yet the document is the response's text
C16_Witness ==
    /\ Done
    /\ Len(frame.calls) = 2
    /\ frame.calls[1].outcome.raises
    /\ ~frame.calls[2].outcome.raises
    /\ frame.last_error \in Errors
    /\ frame.calls[2].outcome.response.textOk
    /\ frame.blueprint = frame.calls[2].outcome.response.text
    /\ frame.blueprint[1] # "No available Gemini models found or generation failed. Last error: "

ErrorDocument(message, s) ==
    <<"Error generating blueprint: ", message, "\n\nFalling back to demo mode...\n\n">>
    \o WholeTemplate(s)

\* C17: an error raised outside the per-candidate attempt ends the call at
\* once: when the client construction raises, no candidate is called; when
\* reading the text of the returned response raises, no further candidate is
\* called; and the document is the "Error generating blueprint" notice with
\* that error's message, followed by the complete template for the idea.
C17_OuterError ==
    /\ (frame.clients # <<>> /\ frame.clients[1].raises)
           => /\ Done
              /\ frame.calls = <<>>
              /\ frame.raised = "None"
              /\ frame.blueprint = ErrorDocument(frame.clients[1].error, frame.project_idea)
    /\ \A i \in 1..Len(frame.calls) :
           (~frame.calls[i].outcome.raises /\ ~frame.calls[i].outcome.response.textOk)
               => /\ Done
                  /\ i = Len(frame.calls)
                  /\ frame.raised = "None"
                  /\ frame.blueprint =
                         ErrorDocument(frame.calls[i].outcome.response.textErr,
                                       frame.project_idea)

\* the first candidate returned a response whose text could not be read: the
\* second was not called and the error document was returned
C17_Witness ==
    /\ Done
    /\ Len(frame.calls) = 1
    /\ ~frame.calls[1].outcome.raises
    /\ ~frame.calls[1].outcome.response.textOk
    /\ frame.blueprint =
           ErrorDocument(frame.calls[1].outcome.response.textErr, frame.project_idea)
    /\ Len(Trimmed(frame.project_idea)) > 50

\* the candidate calls of f come from the head of the list, in order
FromHead(f) ==
    /\ Len(f.calls) <= 2
    /\ \A i \in 1..Len(f.calls) :
           /\ f.calls[i].model = <<"gemini-1.5-flash", "gemini-1.5-pro">>[i]
           /\ i < Len(f.calls) => f.calls[i].outcome.raises
    /\ f.pc = "loop" => (\A i \in 1..Len(f.calls) : f.calls[i].outcome.raises)
    /\ f.pc \in {"idle", "client"} => f.calls = <<>>

\* the document of a finished invocation f, told from its own arguments, the
\* configuration and the outcomes of its own client construction and calls
OwnDocument(f) ==
    IF f.entry = "process_project" /\ ~(f.use_gemini /\ Configured)
    THEN WholeTemplate(f.project_idea)
    ELSE IF ~GEMINI_AVAILABLE
    THEN <<"Gemini API not available. Install google-genai package.">>
    ELSE IF GEMINI_API_KEY = ""
    THEN <<"GEMINI_API_KEY not set. Please configure it in Hugging Face Spaces secrets.">>
    ELSE IF f.clients[1].raises
    THEN ErrorDocument(f.clients[1].error, f.project_idea)
    ELSE LET last == f.calls[Len(f.calls)].outcome
         IN  IF last.raises
             THEN << "No available Gemini models found or generation failed. Last error: ",
                     last.error,
                     "\n\nTip: Check your API key and quota.",
                     "\n\nFalling back to demo mode...\n\n" >>
                  \o WholeTemplate(f.project_idea)
             ELSE IF last.response.textOk THEN last.response.text
             ELSE ErrorDocument(last.response.textErr, f.project_idea)

OwnResult(f) ==
    /\ FromHead(f)
    /\ f.pc = "done"
           => /\ f.raised = "None"
              /\ (f.calls # <<>> /\ f.calls[Len(f.calls)].outcome.raises) => Len(f.calls) = 2
              /\ f.blueprint = OwnDocument(f)

\* C14: requests are independent and stateless.  In every interleaving of two
\* invocations, no step writes the configuration, a step of one invocation
\* leaves the other's arguments, locals and result alone, every invocation
\* calls the candidates from the head of the list whatever the other has seen
\* fail, and its document is told by its own arguments, the configuration and
\* the outcomes of its own calls.
C14_Independent ==
    [][ /\ GEMINI_AVAILABLE' = GEMINI_AVAILABLE
        /\ GEMINI_API_KEY' = GEMINI_API_KEY
        /\ frame' = frame \/ other' = other
        /\ OwnResult(frame')
        /\ OwnResult(other')
        /\ (/\ frame'.pc = "done" /\ other'.pc = "done"
            /\ SameInputs(frame', other') /\ SameBehaviour(frame', other'))
               => /\ frame'.blueprint = other'.blueprint
                  /\ frame'.calls = other'.calls ]_vars

\* while one invocation has ended after both candidates raised, the other,
\* for another idea, has called the first candidate and is about to call the
\* second
C14_Witness ==
    /\ frame.pc = "done" /\ Len(frame.calls) = 2
    /\ frame.calls[1].outcome.raises /\ frame.calls[2].outcome.raises
    /\ other.pc = "loop" /\ Len(other.calls) = 1
    /\ other.calls[1].model = "gemini-1.5-flash"
    /\ other.project_idea # frame.project_idea

====
